---- MODULE Spec2Model ----
(***************************************************************************)
(* Training orchestrator of apps/graph4kg/train.py (function main) as a   *)
(* state machine, together with the asynchronous embedding-update worker  *)
(* that main() drives through model.start_async_update, model.step and    *)
(* model.finish_async_update.                                              *)
(*                                                                         *)
(* The main thread is modelled statement group by statement group (pc is  *)
(* its position in main()).  The worker, the embedding backing store and  *)
(* the dataloader live in other files of the repository; they are         *)
(* modelled from the specification (sections 3, 4.3, 4.4, 5 and 6).        *)
(* dist.get_world_size() is 1 (lines 54-55 and 62-64 do nothing).          *)
(***************************************************************************)
EXTENDS Integers, Sequences, FiniteSets, TLC

(***************************************************************************)
(* Bounds of the model.                                                    *)
(***************************************************************************)
MaxEpoch == 2
MaxSteps == 3
MaxInterval == 2
QueueCap == 2

VARIABLES
    args,            \* prepare_config(): the configuration, fixed for the run
    nparams,         \* len(model.parameters())
    train_loader,    \* the batches one pass over train_loader yields
    pc,              \* position of the main thread in main()
    epoch,           \* index of the current epoch (for epoch in range(num_epoch))
    it,              \* number of batches drawn from train_loader in this epoch
    step,            \* the step counter of main()
    batch,           \* (indexes, prefetch_embeddings, mode) of the current step
    optimizer,       \* "unset", "None", "Adam" or "Adagrad"
    log,             \* log accumulators: number of contributions per key
    timer,           \* timer accumulators: number of contributions per key
    started,         \* model.start_async_update() has been called
    finished,        \* model.finish_async_update() has returned
    queue,           \* the worker's pending traces (bounded FIFO)
    inflight,        \* the trace the worker is applying, or NoTrace
    store,           \* backing store: row -> value of the last applied trace
    phases,          \* calls made so far for the current batch, in order
    calls,           \* number of calls made so far, per operation
    saves,           \* model.save calls: <<step in the path, completed steps>>
    evals,           \* evaluate calls, in order
    dispatched,      \* traces handed to model.step, in order
    applied,         \* ids of the traces written to the store, in order
    emits,           \* print_log calls: the step and accumulators passed
    snap,            \* step, log and saves as they were when the batch was drawn
    error            \* "none", or the ValueError main() terminated with

vars == <<args, nparams, train_loader, pc, epoch, it, step, batch, optimizer,
          log, timer, started, finished, queue, inflight, store, phases,
          calls, saves, evals, emits, dispatched, applied, snap, error>>

cfgVars == <<args, nparams, train_loader>>
workerVars == <<queue, inflight, store, applied>>
histVars == <<phases, calls, saves, evals, emits, dispatched, snap>>

(***************************************************************************)
(* Rows of the embedding tables and the batches of the dataloader.         *)
(***************************************************************************)
Ent(i) == <<"ent", i>>
Rel(j) == <<"rel", j>>

SeqRange(s) == {s[i] : i \in 1..Len(s)}

\* indexes = (h, r, t, neg_ents, all_ents): all_ents are the entity ids the
\* batch touches (spec section 6: all_touched_ids).
MakeBatch(h, r, t, neg, mode) ==
    [h |-> h, r |-> r, t |-> t, neg_ents |-> neg,
     all_ents |-> SeqRange(h) \cup SeqRange(t) \cup SeqRange(neg),
     mode |-> mode]

NoBatch == MakeBatch(<<>>, <<>>, <<>>, <<>>, "none")

\* batch_size 1, num_negatives 1
BatchA == MakeBatch(<<1>>, <<4>>, <<2>>, <<3>>, "tail")
BatchB == MakeBatch(<<2>>, <<4>>, <<3>>, <<2>>, "head")
BatchBad == MakeBatch(<<1>>, <<4>>, <<2>>, <<3>>, "both")

Entities == {1, 2, 3}
Relations == {4}
Rows == {Ent(i) : i \in Entities} \cup {Rel(j) : j \in Relations}

\* What one pass over train_loader yields, in order: the loaders the runs
\* of the model are given.
Loaders ==
    { <<BatchA>>, <<BatchA, BatchB>>, <<BatchBad>>, <<BatchA, BatchBad>>,
      <<BatchA, BatchB, BatchBad>> }

NoTrace == [id |-> 0, rows |-> {}]

(***************************************************************************)
(* Configurations.                                                         *)
(***************************************************************************)
Optimizers == {"Adam", "Adagrad", "SGD"}

\* log_interval, eval_interval and save_interval: every step, or every
\* MaxInterval steps
Intervals == {1, MaxInterval}

AllConfigs ==
    [async_update : BOOLEAN,
     mix_cpu_gpu : BOOLEAN,
     mlp_optimizer : Optimizers,
     num_epoch : 1..MaxEpoch,
     max_steps : 1..MaxSteps,
     log_interval : Intervals,
     eval_interval : Intervals,
     save_interval : Intervals,
     valid : BOOLEAN,
     test : BOOLEAN,
     use_embedding_regularization : BOOLEAN,
     filter_eval : BOOLEAN,
     batch_size : {1},
     num_negatives : {1}]

\* One configuration for each class of configurations main() cannot tell
\* apart: eval_interval is read only when valid is set, and filter_eval only
\* when an evaluation runs.
Canonical(a) ==
    /\ ~a.valid => a.eval_interval = 1
    /\ (~a.valid /\ ~a.test) => ~a.filter_eval

Configs == {a \in AllConfigs : Canonical(a)}

\* defaultdict(int): every key reads 0 until it is written
EmptyLog == [loss |-> 0, reg |-> 0]
EmptyTimer == [sample |-> 0, forward |-> 0, backward |-> 0, update |-> 0]

NoCalls ==
    [start_async_update |-> 0, finish_async_update |-> 0, warn |-> 0,
     create_dataloaders |-> 0, sample |-> 0, prepare_inputs |-> 0,
     forward |-> 0, get_neg_score |-> 0, loss_func |-> 0, backward |-> 0,
     optimizer_step |-> 0, clear_grad |-> 0, create_trace |-> 0,
     model_step |-> 0]

Called(c, op) == [c EXCEPT ![op] = @ + 1]

Init ==
    /\ args \in Configs
    /\ nparams \in {0, 1}
    /\ nparams = 0 => args.mlp_optimizer # "Adagrad"   \* read only when nparams > 0
    /\ train_loader \in Loaders
    /\ pc = "start"
    /\ epoch = 0
    /\ it = 0
    /\ step = 1
    /\ batch = NoBatch
    /\ optimizer = "unset"
    /\ log = EmptyLog
    /\ timer = EmptyTimer
    /\ started = FALSE
    /\ finished = FALSE
    /\ queue = <<>>
    /\ inflight = NoTrace
    /\ store = [r \in Rows |-> 0]
    /\ phases = <<>>
    /\ calls = NoCalls
    /\ saves = <<>>
    /\ evals = <<>>
    /\ emits = <<>>
    /\ dispatched = <<>>
    /\ applied = <<>>
    /\ snap = [step |-> 1, log |-> EmptyLog, saves |-> <<>>]
    /\ error = "none"

(***************************************************************************)
(* The embedding store and the asynchronous update worker                  *)
(* (spec sections 4.3 and 4.4).                                            *)
(***************************************************************************)
\* build_trace: the rows of exactly the ids it is given
create_trace(all_ents, r) ==
    {Ent(i) : i \in all_ents} \cup {Rel(j) : j \in r}

\* apply_trace: every row of the trace is overwritten with the trace's value
apply_trace(st, tr) ==
    [row \in Rows |-> IF row \in tr.rows THEN tr.id ELSE st[row]]

\* start_async_update(): the worker starts with an empty queue
start_async_update ==
    started' = TRUE

\* enqueue that discards the trace when the queue is full
enqueue_dropping(tr) ==
    /\ queue' = IF Len(queue) < QueueCap THEN Append(queue, tr) ELSE queue
    /\ UNCHANGED <<inflight, store, applied>>

\* enqueue(trace): waits while the queue is full, then appends
enqueue(tr) ==
    /\ Len(queue) < QueueCap
    /\ queue' = Append(queue, tr)
    /\ UNCHANGED <<inflight, store, applied>>

\* model.step(ent_trace, rel_trace): through the worker when it runs,
\* inline on the calling thread otherwise
model_step(tr) ==
    IF started /\ ~finished
    THEN enqueue(tr)
    ELSE /\ store' = apply_trace(store, tr)
         /\ applied' = Append(applied, tr.id)
         /\ UNCHANGED <<queue, inflight>>

\* finish_async_update that returns while a trace is still being applied
finish_queue_empty_only ==
    /\ queue = <<>>
    /\ finished' = TRUE

\* finish_async_update(): returns when the worker has drained the queue
finish_async_update ==
    /\ queue = <<>>
    /\ inflight = NoTrace
    /\ finished' = TRUE

\* a worker that takes the newest pending trace
WorkerTakeNewest ==
    /\ started /\ ~finished
    /\ inflight = NoTrace
    /\ queue # <<>>
    /\ inflight' = queue[Len(queue)]
    /\ queue' = SubSeq(queue, 1, Len(queue) - 1)
    /\ UNCHANGED <<store, applied>>
    /\ UNCHANGED <<pc, epoch, it, step, batch, optimizer, log, timer,
                   started, finished, error>>
    /\ UNCHANGED cfgVars
    /\ UNCHANGED histVars

\* the worker takes the oldest pending trace
WorkerTake ==
    /\ started /\ ~finished
    /\ inflight = NoTrace
    /\ queue # <<>>
    /\ inflight' = Head(queue)
    /\ queue' = Tail(queue)
    /\ UNCHANGED <<store, applied>>
    /\ UNCHANGED <<pc, epoch, it, step, batch, optimizer, log, timer,
                   started, finished, error>>
    /\ UNCHANGED cfgVars
    /\ UNCHANGED histVars

\* the worker writes the trace it holds into the backing store
WorkerApply ==
    /\ inflight # NoTrace
    /\ store' = apply_trace(store, inflight)
    /\ applied' = Append(applied, inflight.id)
    /\ inflight' = NoTrace
    /\ UNCHANGED queue
    /\ UNCHANGED <<pc, epoch, it, step, batch, optimizer, log, timer,
                   started, finished, error>>
    /\ UNCHANGED cfgVars
    /\ UNCHANGED histVars

(***************************************************************************)
(* main(): start-up, lines 59-99.                                          *)
(***************************************************************************)
\* lines 59-60
StartAsync ==
    /\ pc = "start"
    /\ IF args.async_update
       THEN /\ start_async_update
            /\ calls' = Called(calls, "start_async_update")
       ELSE UNCHANGED <<started, calls>>
    /\ pc' = "optimizer"
    /\ UNCHANGED <<epoch, it, step, batch, optimizer, log, timer, finished,
                   error, phases, saves, evals, emits, dispatched, snap>>
    /\ UNCHANGED cfgVars
    /\ UNCHANGED workerVars

\* an optimizer block without the test of len(model.parameters())
MakeOptimizerAlways ==
    /\ pc = "optimizer"
    /\ IF args.mlp_optimizer \in {"Adam", "Adagrad"}
       THEN /\ optimizer' = args.mlp_optimizer
            /\ pc' = "loaders"
            /\ UNCHANGED <<error, calls>>
       ELSE /\ error' = "optimizer"
            /\ pc' = "raised"
            /\ UNCHANGED <<optimizer, calls>>
    /\ UNCHANGED <<epoch, it, step, batch, log, timer, started, finished,
                   phases, saves, evals, emits, dispatched, snap>>
    /\ UNCHANGED cfgVars
    /\ UNCHANGED workerVars

\* lines 66-81
MakeOptimizer ==
    /\ pc = "optimizer"
    /\ IF nparams > 0
       THEN IF args.mlp_optimizer \in {"Adam", "Adagrad"}
            THEN /\ optimizer' = args.mlp_optimizer
                 /\ pc' = "loaders"
                 /\ UNCHANGED <<error, calls>>
            ELSE /\ error' = "optimizer"
                 /\ pc' = "raised"
                 /\ UNCHANGED <<optimizer, calls>>
       ELSE /\ calls' = Called(calls, "warn")
            /\ optimizer' = "None"
            /\ pc' = "loaders"
            /\ UNCHANGED error
    /\ UNCHANGED <<epoch, it, step, batch, log, timer, started, finished,
                   phases, saves, evals, emits, dispatched, snap>>
    /\ UNCHANGED cfgVars
    /\ UNCHANGED workerVars

\* lines 83-99
CreateLoaders ==
    /\ pc = "loaders"
    /\ calls' = Called(calls, "create_dataloaders")
    /\ timer' = EmptyTimer
    /\ log' = EmptyLog
    /\ step' = 1
    /\ pc' = "epoch"
    /\ UNCHANGED <<epoch, it, batch, optimizer, started, finished, error,
                   phases, saves, evals, emits, dispatched, snap>>
    /\ UNCHANGED cfgVars
    /\ UNCHANGED workerVars

(***************************************************************************)
(* main(): the training loop, lines 100-176.                               *)
(***************************************************************************)
\* lines 100-101: for epoch in range(args.num_epoch): model.train()
EpochLoop ==
    /\ pc = "epoch"
    /\ IF epoch < args.num_epoch
       THEN /\ it' = 0
            /\ pc' = "fetch"
       ELSE /\ pc' = "finish"
            /\ UNCHANGED it
    /\ UNCHANGED <<epoch, step, batch, optimizer, log, timer, started,
                   finished, error>>
    /\ UNCHANGED cfgVars
    /\ UNCHANGED workerVars
    /\ UNCHANGED histVars

\* lines 102-111: the next batch of train_loader, or the end of the epoch
Fetch ==
    /\ pc = "fetch"
    /\ IF it < Len(train_loader)
       THEN /\ batch' = train_loader[it + 1]
            /\ it' = it + 1
            /\ timer' = [timer EXCEPT !.sample = @ + 1]
            /\ phases' = <<"SAMPLE">>
            /\ calls' = Called(calls, "sample")
            /\ snap' = [step |-> step, log |-> log, saves |-> saves]
            /\ pc' = "forward"
            /\ UNCHANGED epoch
       ELSE /\ epoch' = epoch + 1
            /\ pc' = "epoch"
            /\ UNCHANGED <<batch, it, timer, phases, calls, snap>>
    /\ UNCHANGED <<step, optimizer, log, started, finished, error, saves,
                   evals, emits, dispatched>>
    /\ UNCHANGED cfgVars
    /\ UNCHANGED workerVars

\* a forward pass whose final else treats the mode as 'tail'
ForwardAnyMode ==
    /\ pc = "forward"
    /\ phases' = phases \o <<"PREFETCH", "FORWARD_POS", "FORWARD_NEG">>
    /\ calls' = Called(Called(Called(calls, "prepare_inputs"),
                              "forward"), "get_neg_score")
    /\ pc' = "loss"
    /\ UNCHANGED <<epoch, it, step, batch, optimizer, log, timer, started,
                   finished, error, saves, evals, emits, dispatched, snap>>
    /\ UNCHANGED cfgVars
    /\ UNCHANGED workerVars

\* lines 113-126: prepare_inputs, forward and get_neg_score, or the
\* ValueError for a mode that is neither 'head' nor 'tail'
Forward ==
    /\ pc = "forward"
    /\ IF batch.mode \in {"head", "tail"}
       THEN /\ phases' = phases \o <<"PREFETCH", "FORWARD_POS", "FORWARD_NEG">>
            /\ calls' = Called(Called(Called(calls, "prepare_inputs"),
                                      "forward"), "get_neg_score")
            /\ pc' = "loss"
            /\ UNCHANGED error
       ELSE /\ phases' = phases \o <<"PREFETCH", "FORWARD_POS">>
            /\ calls' = Called(Called(calls, "prepare_inputs"), "forward")
            /\ error' = "mode"
            /\ pc' = "raised"
    /\ UNCHANGED <<epoch, it, step, batch, optimizer, log, timer, started,
                   finished, saves, evals, emits, dispatched, snap>>
    /\ UNCHANGED cfgVars
    /\ UNCHANGED workerVars

\* lines 128-137
Loss ==
    /\ pc = "loss"
    /\ IF args.use_embedding_regularization
       THEN /\ log' = [log EXCEPT !.loss = @ + 1, !.reg = @ + 1]
            /\ phases' = phases \o <<"LOSS", "REGULARIZATION">>
       ELSE /\ log' = [log EXCEPT !.loss = @ + 1]
            /\ phases' = Append(phases, "LOSS")
    /\ calls' = Called(calls, "loss_func")
    /\ timer' = [timer EXCEPT !.forward = @ + 1]
    /\ pc' = "backward"
    /\ UNCHANGED <<epoch, it, step, batch, optimizer, started, finished,
                   error, saves, evals, emits, dispatched, snap>>
    /\ UNCHANGED cfgVars
    /\ UNCHANGED workerVars

\* lines 139-141
Backward ==
    /\ pc = "backward"
    /\ phases' = Append(phases, "BACKWARD")
    /\ calls' = Called(calls, "backward")
    /\ timer' = [timer EXCEPT !.backward = @ + 1]
    /\ pc' = "optimize"
    /\ UNCHANGED <<epoch, it, step, batch, optimizer, log, started, finished,
                   error, saves, evals, emits, dispatched, snap>>
    /\ UNCHANGED cfgVars
    /\ UNCHANGED workerVars

\* an optimizer block that clears the gradients before the step
OptimizeClearFirst ==
    /\ pc = "optimize"
    /\ IF optimizer # "None"
       THEN /\ phases' = phases \o <<"CLEAR_GRAD", "OPTIMIZER_STEP">>
            /\ calls' = Called(Called(calls, "optimizer_step"), "clear_grad")
       ELSE UNCHANGED <<phases, calls>>
    /\ pc' = "dispatch"
    /\ UNCHANGED <<epoch, it, step, batch, optimizer, log, timer, started,
                   finished, error, saves, evals, emits, dispatched, snap>>
    /\ UNCHANGED cfgVars
    /\ UNCHANGED workerVars

\* lines 143-146
Optimize ==
    /\ pc = "optimize"
    /\ IF optimizer # "None"
       THEN /\ phases' = phases \o <<"OPTIMIZER_STEP", "CLEAR_GRAD">>
            /\ calls' = Called(Called(calls, "optimizer_step"), "clear_grad")
       ELSE UNCHANGED <<phases, calls>>
    /\ pc' = "dispatch"
    /\ UNCHANGED <<epoch, it, step, batch, optimizer, log, timer, started,
                   finished, error, saves, evals, emits, dispatched, snap>>
    /\ UNCHANGED cfgVars
    /\ UNCHANGED workerVars

\* create_trace handed every entity id instead of the batch's all_ents
TraceArgsWholeTable(b) == [all_ents |-> Entities, r |-> SeqRange(b.r)]

\* lines 149-150: the ids main() hands to model.create_trace
TraceArgs(b) == [all_ents |-> b.all_ents, r |-> SeqRange(b.r)]

\* lines 148-155
Dispatch ==
    /\ pc = "dispatch"
    /\ IF args.mix_cpu_gpu
       THEN LET a == TraceArgs(batch)
                tr == [id |-> Len(dispatched) + 1,
                       rows |-> create_trace(a.all_ents, a.r)]
            IN /\ model_step(tr)
               /\ dispatched' = Append(dispatched, tr)
               /\ calls' = Called(Called(calls, "create_trace"), "model_step")
       ELSE /\ calls' = Called(calls, "model_step")
            /\ UNCHANGED dispatched
            /\ UNCHANGED workerVars
    /\ phases' = Append(phases, "TRACE_DISPATCH")
    /\ timer' = [timer EXCEPT !.update = @ + 1]
    /\ pc' = "log"
    /\ UNCHANGED <<epoch, it, step, batch, optimizer, log, started, finished,
                   error, saves, evals, emits, snap>>
    /\ UNCHANGED cfgVars

\* lines 157-161
LogStep ==
    /\ pc = "log"
    /\ IF (step + 1) % args.log_interval = 0
       THEN /\ emits' = Append(emits, [step |-> step, log |-> log,
                                        timer |-> timer])
            /\ timer' = EmptyTimer
            /\ log' = EmptyLog
            /\ phases' = Append(phases, "LOG")
       ELSE UNCHANGED <<emits, timer, log, phases>>
    /\ pc' = "valid"
    /\ UNCHANGED <<epoch, it, step, batch, optimizer, started, finished,
                   error, calls, saves, evals, dispatched, snap>>
    /\ UNCHANGED cfgVars
    /\ UNCHANGED workerVars

\* evaluate(model, loader, split, filter_dict if args.filter_eval else None, ...)
Evaluation(split, out) ==
    [split |-> split, filter |-> args.filter_eval, out |-> out,
     after |-> calls.model_step]

\* lines 163-165
Validate ==
    /\ pc = "valid"
    /\ IF args.valid /\ (step + 1) % args.eval_interval = 0
       THEN /\ evals' = Append(evals, Evaluation("valid", "none"))
            /\ phases' = Append(phases, "EVAL")
       ELSE UNCHANGED <<evals, phases>>
    /\ pc' = "save"
    /\ UNCHANGED <<epoch, it, step, batch, optimizer, log, timer, started,
                   finished, error, calls, saves, emits, dispatched, snap>>
    /\ UNCHANGED cfgVars
    /\ UNCHANGED workerVars

\* a checkpoint test without `or step > args.max_steps`
IncrSaveOnIntervalOnly ==
    /\ pc = "save"
    /\ step' = step + 1
    /\ IF step' % args.save_interval = 0
       THEN /\ saves' = Append(saves, [n |-> step', after |-> calls.model_step])
            /\ phases' = Append(phases, "CHECKPOINT")
       ELSE UNCHANGED <<saves, phases>>
    /\ pc' = "test"
    /\ UNCHANGED <<epoch, it, batch, optimizer, log, timer, started, finished,
                   error, calls, evals, emits, dispatched, snap>>
    /\ UNCHANGED cfgVars
    /\ UNCHANGED workerVars

\* lines 167-170
IncrSave ==
    /\ pc = "save"
    /\ step' = step + 1
    /\ IF step' % args.save_interval = 0 \/ step' > args.max_steps
       THEN /\ saves' = Append(saves, [n |-> step', after |-> calls.model_step])
            /\ phases' = Append(phases, "CHECKPOINT")
       ELSE UNCHANGED <<saves, phases>>
    /\ pc' = "test"
    /\ UNCHANGED <<epoch, it, batch, optimizer, log, timer, started, finished,
                   error, calls, evals, emits, dispatched, snap>>
    /\ UNCHANGED cfgVars
    /\ UNCHANGED workerVars

\* lines 171-176: the break leaves the loop over train_loader only
TestBreak ==
    /\ pc = "test"
    /\ IF step > args.max_steps /\ args.test
       THEN /\ evals' = Append(evals, Evaluation("test", "none"))
            /\ phases' = Append(phases, "TEST")
            /\ epoch' = epoch + 1
            /\ pc' = "epoch"
       ELSE /\ pc' = "fetch"
            /\ UNCHANGED <<evals, phases, epoch>>
    /\ UNCHANGED <<it, step, batch, optimizer, log, timer, started, finished,
                   error, calls, saves, emits, dispatched, snap>>
    /\ UNCHANGED cfgVars
    /\ UNCHANGED workerVars

(***************************************************************************)
(* main(): after the loop, lines 178-184.                                  *)
(***************************************************************************)
\* a shutdown that calls finish_async_update whatever async_update is
FinishAsyncAlways ==
    /\ pc = "finish"
    /\ finish_async_update
    /\ calls' = Called(calls, "finish_async_update")
    /\ pc' = "final_test"
    /\ UNCHANGED <<epoch, it, step, batch, optimizer, log, timer, started,
                   error, phases, saves, evals, emits, dispatched, snap>>
    /\ UNCHANGED cfgVars
    /\ UNCHANGED workerVars

\* lines 178-179
FinishAsync ==
    /\ pc = "finish"
    /\ IF args.async_update
       THEN /\ finish_async_update
            /\ calls' = Called(calls, "finish_async_update")
       ELSE UNCHANGED <<finished, calls>>
    /\ pc' = "final_test"
    /\ UNCHANGED <<epoch, it, step, batch, optimizer, log, timer, started,
                   error, phases, saves, evals, emits, dispatched, snap>>
    /\ UNCHANGED cfgVars
    /\ UNCHANGED workerVars

\* lines 181-184
FinalTest ==
    /\ pc = "final_test"
    /\ IF args.test
       THEN evals' = Append(evals, Evaluation("test", "test.pkl"))
       ELSE UNCHANGED evals
    /\ pc' = "done"
    /\ UNCHANGED <<epoch, it, step, batch, optimizer, log, timer, started,
                   finished, error, phases, calls, saves, emits, dispatched,
                   snap>>
    /\ UNCHANGED cfgVars
    /\ UNCHANGED workerVars

Next ==
    \/ StartAsync
    \/ MakeOptimizer
    \/ CreateLoaders
    \/ EpochLoop
    \/ Fetch
    \/ Forward
    \/ Loss
    \/ Backward
    \/ Optimize
    \/ Dispatch
    \/ LogStep
    \/ Validate
    \/ IncrSave
    \/ TestBreak
    \/ FinishAsync
    \/ FinalTest
    \/ WorkerTake
    \/ WorkerApply

Spec == Init /\ [][Next]_vars

\* The runs whose logging, validation and checkpoint settings are fixed
\* (none of them touches the worker or its queue), with a worker that runs
\* whenever it has something to do.
FairInit ==
    /\ Init
    /\ args.log_interval = 1
    /\ args.save_interval = 1
    /\ ~args.valid
    /\ ~args.use_embedding_regularization
    /\ ~args.filter_eval

FairSpec ==
    FairInit /\ [][Next]_vars /\ WF_vars(WorkerTake) /\ WF_vars(WorkerApply)

(***************************************************************************)
(* Properties.                                                             *)
(***************************************************************************)
Terminated == pc \in {"done", "raised"}
Drained == queue = <<>> /\ inflight = NoTrace
DispatchedIds == {dispatched[i].id : i \in 1..Len(dispatched)}
AppliedIds == SeqRange(applied)

\* C1: once max_steps training steps have completed no further training
\* step runs: in no run are more than max_steps training steps carried
\* through to their backward pass and model.step dispatch.
C1_StopsAtMaxSteps ==
    /\ calls.backward <= args.max_steps
    /\ calls.model_step <= args.max_steps

\* C2: with async update enabled, whenever main() has terminated (returned,
\* or raised the optimizer or the mode ValueError) after start_async_update,
\* finish_async_update has been called and no trace is left unapplied.
C2_DrainedAtEveryExit ==
    (Terminated /\ started) => (finished /\ Drained)

\* C3: once finish_async_update has returned the queue is empty, the worker
\* holds no trace and every trace the training steps dispatched has been
\* applied to the backing store.
C3_FinishDrains ==
    finished =>
        /\ Len(queue) = 0
        /\ inflight = NoTrace
        /\ Len(applied) = Len(dispatched)
        /\ AppliedIds = DispatchedIds

\* C3 witness: finish_async_update has returned after three traces went
\* through the worker.
C3_Witness ==
    finished /\ Len(dispatched) >= 3 /\ Len(applied) = Len(dispatched)

\* the value the last trace holding the row wrote, 0 when no trace held it
LastDispatched(row) ==
    LET ks == {k \in 1..Len(dispatched) : row \in dispatched[k].rows}
    IN IF ks = {} THEN 0
       ELSE dispatched[CHOOSE k \in ks : \A j \in ks : j <= k].id

\* C4: whenever the queue is drained, every row of the backing store holds
\* the value of the last trace enqueued for it, under every interleaving of
\* the main thread and the worker.
C4_FifoLastWriterWins ==
    Drained => \A row \in Rows : store[row] = LastDispatched(row)

\* C4 witness: the worker has drained two traces that both hold entity row
\* 2; the row has the second trace's value, and entity row 1, which only
\* the first trace holds, has the first trace's value.
C4_Witness ==
    /\ started /\ Drained
    /\ Len(dispatched) = 2
    /\ Ent(2) \in dispatched[1].rows \cap dispatched[2].rows
    /\ store[Ent(2)] = dispatched[2].id
    /\ store[Ent(1)] = dispatched[1].id

LongestLoader == CHOOSE n \in {Len(l) : l \in Loaders} :
                     \A l \in Loaders : Len(l) <= n
TraceIds == 1..(MaxEpoch * LongestLoader)

\* how many times trace k is pending, being applied or applied
Occurrences(k) ==
    Cardinality({i \in 1..Len(queue) : queue[i].id = k})
    + (IF inflight.id = k THEN 1 ELSE 0)
    + Cardinality({i \in 1..Len(applied) : applied[i] = k})

AtAsyncDispatch ==
    pc = "dispatch" /\ args.mix_cpu_gpu /\ started /\ ~finished

\* the safety part of C5
C5_NothingDropped ==
    /\ Len(queue) <= QueueCap
    /\ \A k \in 1..Len(dispatched) : Occurrences(k) = 1
    /\ \A k \in TraceIds \ (1..Len(dispatched)) : Occurrences(k) = 0
    /\ AtAsyncDispatch => (ENABLED Dispatch <=> Len(queue) < QueueCap)

\* C5: the queue never holds more than QueueCap traces; model.step goes
\* through at once while the queue has room and waits exactly while it is
\* full; every dispatched trace is pending, being applied or applied exactly
\* once, and, the worker running, it is eventually applied.
C5_EnqueueNeverDrops ==
    /\ []C5_NothingDropped
    /\ \A k \in TraceIds : (Len(dispatched) >= k) ~> (k \in AppliedIds)

\* C5 witness: the training thread waits at model.step behind a full queue.
C5_Witness ==
    /\ AtAsyncDispatch
    /\ Len(queue) = QueueCap
    /\ ~ENABLED Dispatch

\* C6: evaluate() and model.save() run only while no dispatched trace is
\* pending in the queue or being applied by the worker.
C6_NoEvalOrSaveDuringUpdate ==
    [][(Len(evals') > Len(evals) \/ Len(saves') > Len(saves)) => Drained]_vars

BadMode(b) == b.mode \notin {"head", "tail", "none"}

\* C7: a batch whose mode is neither 'head' nor 'tail' gets no further than
\* prepare_inputs and forward: the step raises before any loss, backward,
\* optimizer step, create_trace or model.step, with the step counter, the
\* log counters and the checkpoints as they were when the batch was drawn;
\* after the failure the main thread does nothing more (no retry, no later
\* batch).
C7_BadModeFailsFast ==
    /\ [](BadMode(batch) =>
            \/ pc = "forward" /\ phases = <<"SAMPLE">> /\ error = "none"
            \/ /\ pc = "raised"
               /\ error = "mode"
               /\ phases = <<"SAMPLE", "PREFETCH", "FORWARD_POS">>
               /\ step = snap.step
               /\ log = snap.log
               /\ saves = snap.saves
               /\ calls.loss_func = calls.sample - 1
               /\ calls.backward = calls.sample - 1
               /\ calls.model_step = calls.sample - 1
               /\ calls.optimizer_step <= calls.sample - 1
               /\ calls.create_trace <= calls.sample - 1)
    /\ [][error = "mode" =>
            UNCHANGED <<pc, epoch, it, step, batch, optimizer, log, timer,
                        error, phases, calls, saves, evals, emits,
                        dispatched>>]_vars

\* C7 witness: the third batch of the run had an unsupported mode and the
\* run has failed, with the checkpoints written and a loss accumulated by
\* the two steps before it.
C7_Witness ==
    /\ pc = "raised" /\ error = "mode"
    /\ calls.sample = 3
    /\ Len(saves) = 2
    /\ log.loss = 1

\* C8: an unsupported optimizer name makes main() raise at start-up, before
\* any training step, before the dataloaders are created and before the
\* background worker is started, whether or not the model has dense
\* parameters.
C8_UnsupportedOptimizerFailsAtStartup ==
    args.mlp_optimizer \notin {"Adam", "Adagrad"} =>
        /\ pc \in {"start", "optimizer", "raised"}
        /\ ~started
        /\ calls.create_dataloaders = 0
        /\ calls.sample = 0

(***************************************************************************)
(* The phases of a step (C9).                                              *)
(***************************************************************************)
\* the calls of a step up to the return of model.step, in order
StepPhases(withOptimizer, withReg) ==
    <<"SAMPLE", "PREFETCH", "FORWARD_POS", "FORWARD_NEG", "LOSS">>
    \o (IF withReg THEN <<"REGULARIZATION">> ELSE <<>>)
    \o <<"BACKWARD">>
    \o (IF withOptimizer THEN <<"OPTIMIZER_STEP", "CLEAR_GRAD">> ELSE <<>>)
    \o <<"TRACE_DISPATCH">>

Periodic == <<"LOG", "EVAL", "CHECKPOINT", "TEST">>

PeriodicIndex(p) == CHOOSE i \in 1..Len(Periodic) : Periodic[i] = p

\* s lists members of Periodic in the order of Periodic, none twice
InPeriodicOrder(s) ==
    /\ \A i \in 1..Len(s) : s[i] \in SeqRange(Periodic)
    /\ \A i, j \in 1..Len(s) :
           i < j => PeriodicIndex(s[i]) < PeriodicIndex(s[j])

DispatchReturned == pc \in {"log", "valid", "save", "test"}

\* the phases run so far follow m, and those after m are periodic ones
FollowsPhases(m) ==
    IF Len(phases) <= Len(m)
    THEN phases = SubSeq(m, 1, Len(phases))
    ELSE /\ SubSeq(phases, 1, Len(m)) = m
         /\ InPeriodicOrder(SubSeq(phases, Len(m) + 1, Len(phases)))

\* model.step has been called once per step (step counts one more than the
\* completed steps, from line 167 on), and a batch is drawn only after the
\* model.step of the batch before it has returned
OneDispatchPerStep ==
    /\ calls.model_step =
           (IF pc \in {"log", "valid", "save"} THEN step ELSE step - 1)
    /\ calls.sample <= calls.model_step + 1
    /\ (pc = "forward" /\ error = "none") => calls.sample = calls.model_step + 1

\* C9 as claimed: every step runs all of SAMPLE, PREFETCH, FORWARD, LOSS,
\* BACKWARD, OPTIMIZE (optimizer.step, clear_grad) and TRACE_DISPATCH in this
\* order, none skipped, then the periodic phases in order.
C9_AllPhasesInOrder ==
    /\ FollowsPhases(StepPhases(TRUE, args.use_embedding_regularization))
    /\ DispatchReturned =>
           Len(phases) >= Len(StepPhases(TRUE, args.use_embedding_regularization))
    /\ OneDispatchPerStep

\* C9 amended: as claimed, except that OPTIMIZE (optimizer.step then
\* clear_grad) runs exactly in the runs that have an optimizer and is left
\* out of every step when the model has no dense parameters.
C9_PhasesInOrderOptimizeIfAny ==
    LET m == StepPhases(optimizer # "None", args.use_embedding_regularization)
    IN /\ pc \notin {"start", "optimizer"} => FollowsPhases(m)
       /\ DispatchReturned => Len(phases) >= Len(m)
       /\ OneDispatchPerStep

\* C9 witness: the second step of a run has gone through every phase, the
\* optional and the periodic ones included.
C9_Witness ==
    /\ pc = "test"
    /\ calls.sample = 2
    /\ phases = StepPhases(TRUE, TRUE) \o <<"LOG", "EVAL", "CHECKPOINT">>

(***************************************************************************)
(* The rows of a step's trace (C10).                                       *)
(***************************************************************************)
\* the rows a batch references: heads, tails, negatives and relations
BatchRows(b) ==
    {Ent(i) : i \in SeqRange(b.h) \cup SeqRange(b.t) \cup SeqRange(b.neg_ents)}
    \cup {Rel(j) : j \in SeqRange(b.r)}

LastTrace == dispatched[Len(dispatched)]

TraceOfThisBatch == args.mix_cpu_gpu /\ DispatchReturned

PastSave == step - 1

SavesOf(n) == {i \in 1..Len(saves) : saves[i].n = n}

\* C11: a checkpoint step_<n> is written exactly when n training steps have
\* completed and n is a multiple of save_interval (or n is max_steps), the
\* model saved in step_<n> is the state after exactly n completed steps,
\* and no checkpoint is written at any other step.
C11_CheckpointAfterNSteps ==
    /\ \A i \in 1..Len(saves) :
          /\ saves[i].after = saves[i].n
          /\ saves[i].n % args.save_interval = 0 \/ saves[i].n = args.max_steps
    /\ \A k \in 1..PastSave :
          (k % args.save_interval = 0 \/ k = args.max_steps)
              => \E i \in SavesOf(k) : saves[i].after = k

\* training steps that have passed the validation test of lines 163-165
PastValid == IF pc = "save" THEN step ELSE step - 1

ValidEvals == {i \in 1..Len(evals) : evals[i].split = "valid"}

\* C12: evaluate(..., 'valid', ...) is called after the k-th completed
\* training step exactly when args.valid holds and k is a positive multiple
\* of eval_interval, never when args.valid is false, and it receives the
\* filter dictionary exactly when filter_eval is set.
C12_ValidationEveryEvalInterval ==
    /\ ~args.valid => ValidEvals = {}
    /\ \A i \in ValidEvals :
          /\ evals[i].filter = args.filter_eval
          /\ evals[i].after >= 1
          /\ evals[i].after % args.eval_interval = 0
    /\ \A k \in 1..PastValid :
          (args.valid /\ k % args.eval_interval = 0)
              => \E i \in ValidEvals : evals[i].after = k

\* the losses print_log has been handed in the first n emissions
RECURSIVE EmittedLoss(_)
EmittedLoss(n) == IF n = 0 THEN 0 ELSE EmittedLoss(n - 1) + emits[n].log.loss

\* the emission of this step has just been made (lines 157-161 have run)
JustEmitted ==
    pc = "valid" /\ emits # <<>> /\ emits[Len(emits)].step = step

\* C13: at every emission, the first one of the run included, the
\* accumulators passed to print_log hold the contributions of exactly
\* log_interval training steps; each completed step's loss is counted in
\* exactly one emission window, and the accumulators are empty immediately
\* after each emission.
C13_EmitsHoldLogIntervalSteps ==
    /\ \A i \in 1..Len(emits) :
          /\ emits[i].log.loss = args.log_interval
          /\ emits[i].timer.update = args.log_interval
    /\ EmittedLoss(Len(emits)) + log.loss = calls.loss_func
    /\ JustEmitted => (log = EmptyLog /\ timer = EmptyTimer)

(***************************************************************************)
(* A model without dense parameters.                                       *)
(***************************************************************************)
OptimizerMade == pc \notin {"start", "optimizer"}

\* backward runs once per computed loss, and the update dispatch once per
\* backward pass, with create_trace exactly in the mix_cpu_gpu runs
BackwardAndDispatchRun ==
    /\ calls.backward =
          (IF pc = "backward" THEN calls.loss_func - 1 ELSE calls.loss_func)
    /\ calls.model_step =
          (IF pc \in {"optimize", "dispatch"}
           THEN calls.backward - 1 ELSE calls.backward)
    /\ calls.create_trace = (IF args.mix_cpu_gpu THEN calls.model_step ELSE 0)

\* C14: with zero dense parameters the run is not aborted: exactly one
\* warning is issued at start-up (and none when there are parameters), the
\* optimizer is None, optimizer.step and clear_grad are never called, and
\* backward and the update dispatch run as in a run with an optimizer.
C14_NoDenseParamsNoOptimizer ==
    /\ nparams = 0 =>
          /\ error # "optimizer"
          /\ calls.warn = (IF OptimizerMade THEN 1 ELSE 0)
          /\ optimizer = (IF OptimizerMade THEN "None" ELSE "unset")
          /\ calls.optimizer_step = 0
          /\ calls.clear_grad = 0
    /\ nparams > 0 => calls.warn = 0
    /\ BackwardAndDispatchRun

C14_Witness ==
    /\ nparams = 0
    /\ pc = "done"
    /\ calls.warn = 1
    /\ optimizer = "None"
    /\ calls.backward = 2
    /\ calls.create_trace = 2
    /\ calls.model_step = 2

(***************************************************************************)
(* The end of the run: test evaluation, worker lifecycle, last checkpoint. *)
(***************************************************************************)
TestEvals == {i \in 1..Len(evals) : evals[i].split = "test"}

\* C16: with testing enabled the test-set evaluation is executed exactly
\* once per run, after the last training step: evaluate(..., 'test', ...)
\* is never called twice (and never with testing disabled), and no training
\* step runs after a test evaluation.
C16_TestOnceAfterLastStep ==
    /\ Cardinality(TestEvals) <= 1
    /\ ~args.test => TestEvals = {}
    /\ (pc = "done" /\ args.test) => Cardinality(TestEvals) = 1
    /\ \A i \in TestEvals : calls.backward <= evals[i].after

AfterLoop == pc \in {"final_test", "done"}

\* the calls made so far are the ones a well-bracketed run has made at
\* this position of main()
LifecycleCalls ==
    /\ calls.start_async_update =
          (IF args.async_update /\ pc # "start" THEN 1 ELSE 0)
    /\ calls.finish_async_update =
          (IF args.async_update /\ AfterLoop THEN 1 ELSE 0)
    /\ pc = "start" => calls.sample = 0
    /\ \A i \in 1..Len(evals) :
          evals[i].out = "test.pkl" =>
              /\ i = Len(evals)
              /\ args.async_update => calls.finish_async_update = 1

\* once finish_async_update has been called no batch is drawn, no update
\* is dispatched and finish_async_update is not called again
NothingAfterFinish ==
    calls.finish_async_update = 1 =>
        /\ calls'.sample = calls.sample
        /\ calls'.model_step = calls.model_step
        /\ calls'.finish_async_update = 1

\* C17: start_async_update is called exactly once, before the first
\* training step, if and only if async_update is set; finish_async_update
\* is called exactly once, after the last training step and before the
\* test evaluation that writes test.pkl, if and only if async_update is
\* set; neither is called when async_update is unset.
C17_AsyncLifecycleBracketed ==
    []LifecycleCalls /\ [][NothingAfterFinish]_vars

C17_Witness ==
    /\ pc = "done"
    /\ args.async_update
    /\ args.mix_cpu_gpu
    /\ calls.start_async_update = 1
    /\ calls.finish_async_update = 1
    /\ calls.model_step = 2
    /\ Len(applied) = 2
    /\ evals # <<>>
    /\ evals[Len(evals)].out = "test.pkl"

\* main() has returned without an error after at least one training step
ReturnedAfterTraining == pc = "done" /\ calls.model_step >= 1

\* the last model.save call came after the last executed training step
LastStepCheckpointed ==
    saves # <<>> /\ saves[Len(saves)].after = calls.model_step

\* the checkpoint test of line 168 as the last training step left it
CheckpointDue == step % args.save_interval = 0 \/ step > args.max_steps

\* C18 as stated: every run that returns after at least one training step
\* has called model.save after its last training step, also when the
\* dataloader and the epochs are exhausted before max_steps is reached.
C18_FinalStateCheckpointed ==
    ReturnedAfterTraining => LastStepCheckpointed

\* C18 (amended): a run that returns after at least one training step has
\* called model.save after its last training step exactly when that step
\* took the counter to a multiple of save_interval or past max_steps.
C18_FinalStateCheckpointedWhenDue ==
    ReturnedAfterTraining => (LastStepCheckpointed <=> CheckpointDue)

C18_Witness ==
    /\ pc = "done"
    /\ calls.model_step = 2
    /\ args.max_steps = 3
    /\ step = 3
    /\ saves = <<[n |-> 2, after |-> 1], [n |-> 3, after |-> 2]>>
====
